---------------------------- MODULE Spec2Model ----------------------------
(***************************************************************************)
(* Model of the e-mail verification engine of src/email_verifier.py:       *)
(* validate_email_syntax, check_dns_and_mx, smtp_handshake,                *)
(* check_catch_all and verify_email.                                       *)
(*                                                                         *)
(* One frame per verify_email invocation holds the locals of verify_email  *)
(* and of the smtp_handshake it is currently running.  Every call into     *)
(* dnspython or smtplib is one action; its outcome (a return value or a    *)
(* raised exception) is chosen by the environment.  Strings that the code  *)
(* inspects (the address, host names) are sequences of one-character       *)
(* strings, so that re.match and str.split are computed, not assumed.      *)
(* Python indexes lists from 0, TLA+ sequences from 1: mx_hosts[0] of the  *)
(* source is mx_hosts[1] here.                                             *)
(***************************************************************************)
EXTENDS Integers, Sequences, FiniteSets, TLC

\* frame: one record per call.  random_draws: how many times the generator
\* of the random module, the one object of the process that every call
\* reads and writes, has been drawn from.
VARIABLES frame, random_draws

vars == <<frame, random_draws>>

---------------------------------------------------------------------------
(* Bounds of the model.                                                    *)

\* Largest number of MX records in one answer of the resolver.
MaxMx == 4

---------------------------------------------------------------------------
(* Program constants.                                                      *)

SMTP_PORT == 25
SMTP_ESMTP_PORT == 587
SMTPS_PORT == 465

\* for mx_host in mx_hosts[:3]
HostLimit == 3

ports_to_try == <<SMTP_PORT, SMTP_ESMTP_PORT, SMTPS_PORT>>

\* str(port) inside the f-strings of smtp_handshake
PortStr(p) ==
    CASE p = SMTP_PORT -> "25"
      [] p = SMTP_ESMTP_PORT -> "587"
      [] p = SMTPS_PORT -> "465"

\* 250 = success, 251/252 = success (forwarding or catch-all)
AcceptCodes == {250, 251, 252}

---------------------------------------------------------------------------
(* Strings.                                                                *)

Letters == {"a", "b", "c", "o", "m", "x"}
Digits == {"1", "2"}
\* [a-zA-Z0-9._%+-]
LocalChars == Letters \cup Digits \cup {".", "_", "%", "+", "-"}
\* [a-zA-Z0-9.-]
DomainChars == Letters \cup Digits \cup {".", "-"}

\* The addresses handed to verify_email.
Emails ==
    { <<>>,
      <<"a", "b">>,
      <<"a", "@", "b">>,
      <<"a", "@", "b", ".", "c">>,
      <<"a", "@", "b", ".", "c", "1">>,
      <<"a", " ", "@", "b", ".", "c", "o">>,
      <<"a", "@", "a", "@", "b", ".", "c", "o">>,
      <<"@", "b", ".", "c", "o">>,
      <<"a", "@", ".", "c", "o">>,
      <<"a", "@", "b", ".", "c", "o", "\n", "\n">>,
      <<"a", "+", "1", "@", "m", "-", "x", ".", "c", "o">>,
      <<"a", "@", "b", ".", "c", "o", "\n">> }

\* The whole of str matches ^[a-zA-Z0-9._%+-]+@[a-zA-Z0-9.-]+\.[a-zA-Z]{2,}
\* : neither character class holds "@", so the "@" of a match is the only
\* one, and the regex engine's backtracking finds the dot if one fits.
MatchesPattern(str) ==
    \E at \in 2..Len(str) :
        /\ str[at] = "@"
        /\ \A k \in 1..(at - 1) : str[k] \in LocalChars
        /\ \E dot \in (at + 2)..Len(str) :
              /\ str[dot] = "."
              /\ \A k \in (at + 1)..(dot - 1) : str[k] \in DomainChars
              /\ Len(str) - dot >= 2
              /\ \A k \in (dot + 1)..Len(str) : str[k] \in Letters

\* re.match(pattern, email): without re.MULTILINE, "$" matches at the end
\* of the string and also just before a newline that ends the string.
re_match(str) ==
    \/ MatchesPattern(str)
    \/ /\ Len(str) > 0
       /\ str[Len(str)] = "\n"
       /\ MatchesPattern(SubSeq(str, 1, Len(str) - 1))

validate_email_syntax(email) ==
    IF email = <<>> THEN FALSE ELSE re_match(email)

\* str.split(sep): the segments between the occurrences of sep.
RECURSIVE split(_, _)
split(str, sep) ==
    IF \A k \in 1..Len(str) : str[k] # sep
    THEN <<str>>
    ELSE LET at == CHOOSE k \in 1..Len(str) :
                       /\ str[k] = sep
                       /\ \A j \in 1..(k - 1) : str[j] # sep
         IN  <<SubSeq(str, 1, at - 1)>>
                 \o split(SubSeq(str, at + 1, Len(str)), sep)

\* f"{random_string}@{domain}"
generate_random_email(random_string, domain) ==
    random_string \o <<"@">> \o domain

\* Outcomes of random.choices(...): mailbox names the generator can draw.
RandomStrings == { <<"x", "1">>, <<"a">> }

---------------------------------------------------------------------------
(* The resolver.                                                           *)

\* The MX records a zone can hold: (exchange, preference).
MxRecord ==
    { [exchange |-> <<"m", "x", "1">>, preference |-> 10],
      [exchange |-> <<"m", "x", "2">>, preference |-> 20] }

\* Non-empty answers to an MX query: a successful answer holds a record.
MxAnswers == UNION { [1..n -> MxRecord] : n \in 1..MaxMx }

\* Exceptions dns.resolver.resolve can raise.
DnsErrors == {"NoAnswer", "NXDOMAIN", "NoNameservers", "Timeout",
              "socket.timeout", "DNSException"}

\* list.sort(key=...) is stable: an element goes after every element whose
\* key is not greater.
\* A variant of InsertByKey that puts an element before the elements of
\* equal key: an unstable sort.
RECURSIVE InsertByKey_Unstable(_, _)
InsertByKey_Unstable(sorted, x) ==
    IF sorted = <<>> THEN <<x>>
    ELSE IF x[2] <= Head(sorted)[2]
         THEN <<x>> \o sorted
         ELSE <<Head(sorted)>> \o InsertByKey_Unstable(Tail(sorted), x)

RECURSIVE InsertByKey(_, _)
InsertByKey(sorted, x) ==
    IF sorted = <<>> THEN <<x>>
    ELSE IF x[2] < Head(sorted)[2]
         THEN <<x>> \o sorted
         ELSE <<Head(sorted)>> \o InsertByKey(Tail(sorted), x)

RECURSIVE SortByPreference(_)
SortByPreference(mx) ==
    IF mx = <<>> THEN <<>>
    ELSE InsertByKey(SortByPreference(SubSeq(mx, 1, Len(mx) - 1)), mx[Len(mx)])

\* Lines 59-61: the (exchange, preference) pairs, sorted, then the exchanges.
SortedHosts(records) ==
    LET mx_hosts == [k \in 1..Len(records) |->
                         <<records[k].exchange, records[k].preference>>]
        ordered == SortByPreference(mx_hosts)
    IN  [k \in 1..Len(ordered) |-> ordered[k][1]]

---------------------------------------------------------------------------
(* Exceptions and library outcomes.                                        *)

NoExc == [type |-> "None", str |-> ""]
NoReply == [code |-> 0, message |-> ""]
\* Python's None for last_error; every reason is a non-empty sequence.
None == <<>>

\* The classes an exception type is an instance of (its MRO).
Mro(type) ==
    CASE type = "socket.timeout" ->
             {"socket.timeout", "TimeoutError", "OSError", "Exception"}
      [] type = "socket.gaierror" ->
             {"socket.gaierror", "OSError", "Exception"}
      [] type = "ConnectionRefusedError" ->
             {"ConnectionRefusedError", "ConnectionError", "OSError", "Exception"}
      [] type = "OSError" -> {"OSError", "Exception"}
      [] type = "SMTPServerDisconnected" ->
             {"SMTPServerDisconnected", "SMTPException", "OSError", "Exception"}
      [] OTHER -> {type, "Exception"}

IsInstance(e, classes) == Mro(e.type) \cap classes # {}

\* What server.connect(mx_host, port, timeout=...) can raise.  TypeError
\* stands for the exceptions outside OSError; it is what CPython's
\* smtplib.SMTP.connect(host, port, source_address) raises for the timeout
\* keyword of line 102.  The returning outcome is kept in ConnectOutcomes:
\* the rest of smtp_handshake is written for a connect that can succeed.
ConnectErrors ==
    { [type |-> "socket.timeout", str |-> "timed out"],
      [type |-> "socket.gaierror", str |-> "[Errno -2] Name or service not known"],
      [type |-> "ConnectionRefusedError", str |-> "[Errno 111] Connection refused"],
      [type |-> "TypeError", str |-> "unexpected keyword argument"] }

\* What a command on a connected session can raise: smtplib turns every
\* socket error into SMTPServerDisconnected.
StepErrors ==
    { [type |-> "SMTPServerDisconnected", str |-> "Connection unexpectedly closed"] }

\* "Connection refused" in error_str or "errno 111" in error_str
MentionsRefused(error_str) ==
    error_str \in {"[Errno 111] Connection refused"}

Returns(reply) == [exc |-> NoExc, reply |-> reply]
Raises(e) == [exc |-> e, reply |-> NoReply]

Reply(code, message) == [code |-> code, message |-> message]

\* server.ehlo(), server.helo(), server.mail('') and server.quit() return
\* the server's (code, message) whatever the code is; the caller drops it.
GreetingOutcomes ==
    {Returns(Reply(250, "OK")), Returns(Reply(502, "Not implemented"))}
        \cup {Raises(e) : e \in StepErrors}
MailOutcomes ==
    {Returns(Reply(250, "OK")), Returns(Reply(530, "Authentication required"))}
        \cup {Raises(e) : e \in StepErrors}
RcptOutcomes ==
    {Returns(Reply(250, "OK")), Returns(Reply(251, "Forwarding")),
     Returns(Reply(252, "Cannot verify")), Returns(Reply(550, "User unknown"))}
        \cup {Raises(e) : e \in StepErrors}
QuitOutcomes ==
    {Returns(Reply(221, "Bye"))} \cup {Raises(e) : e \in StepErrors}
ConnectOutcomes ==
    {Returns(Reply(220, "Ready"))} \cup {Raises(e) : e \in ConnectErrors}

\* f"{code}"
CodeStr(code) ==
    CASE code = 250 -> "250" [] code = 251 -> "251" [] code = 252 -> "252"
      [] code = 550 -> "550" [] code = 530 -> "530" [] OTHER -> "?"

---------------------------------------------------------------------------
(* The frame of one verify_email call.                                     *)

\* Lines 208-215.
InitialResult(email) ==
    [email |-> email, syntax |-> FALSE, mx |-> FALSE, smtp_accepts |-> FALSE,
     catch_all |-> FALSE, status |-> "invalid"]

NoProbe ==
    [caller |-> "", pos |-> 0, mx_host |-> <<>>, rcpt_to |-> <<>>,
     outcome |-> "none"]

\* What the network saw of this call: the resolver queries, each with the
\* exception it raised ("None" for an answer); the hosts a
\* connection was attempted to, by position in mx_hosts and by the caller
\* of smtp_handshake; the newest smtp_handshake invocation and the number
\* of invocations by check_catch_all; whether the newest SMTP object got
\* connected, the commands called on it and the reply code of its MAIL;
\* how many times the newest port attempt assigned last_error; what the
\* newest smtp_handshake to return returned.
NoNet ==
    [dns |-> <<>>, contacted |-> {}, probe |-> NoProbe, catch_all_probes |-> 0,
     connected |-> FALSE, session |-> <<>>, mail_code |-> 0,
     \* the reply code of the RCPT of the newest connection, 0 if none
     rcpt_code |-> 0,
     reasons |-> 0, returned |-> <<>>,
     \* the newest connection attempt: whose probe, which host and port,
     \* and the exception server.connect raised ("None" if it returned)
     conn |-> [caller |-> "", pos |-> 0, port_i |-> 0],
     connect_exc |-> "None"]

InitialFrame(email) ==
    [pc |-> "verify_email", email |-> email, result |-> InitialResult(email),
     domain |-> <<>>, has_mx |-> FALSE, mx_hosts |-> <<>>, host_i |-> 0,
     accepted |-> FALSE, error_msg |-> None, raised |-> NoExc,
     \* the running smtp_handshake
     caller |-> "", mx_host |-> <<>>, rcpt_to |-> <<>>, port_i |-> 0,
     last_error |-> None, server |-> "None", site |-> "", exc |-> NoExc,
     reply |-> NoReply,
     net |-> NoNet]

Min(a, b) == IF a < b THEN a ELSE b

Last(seq) == seq[Len(seq)]

---------------------------------------------------------------------------
(* verify_email, after a stage returned.                                   *)

\* A variant of FinalStatus that takes the branches the wrong way round.
FinalStatus_Swapped(catch_all) == IF catch_all THEN "valid" ELSE "risky"

\* Lines 262-265: the status once catch-all detection returned.
FinalStatus(catch_all) == IF catch_all THEN "risky" ELSE "valid"

\* Entry of smtp_handshake(mx_host, email): lines 92-94.
StartHandshake(s, caller, pos, address) ==
    [s EXCEPT !.pc = "connect", !.caller = caller,
              !.mx_host = s.mx_hosts[pos], !.rcpt_to = address,
              !.port_i = 1, !.last_error = None, !.server = "None",
              !.site = "", !.exc = NoExc, !.reply = NoReply,
              !.net.probe = [caller |-> caller, pos |-> pos,
                             mx_host |-> s.mx_hosts[pos], rcpt_to |-> address,
                             outcome |-> "running"],
              !.net.catch_all_probes =
                  IF caller = "check_catch_all" THEN @ + 1 ELSE @]

\* Lines 252-259: after the host loop.
AfterHostLoop(s) ==
    IF ~s.accepted
    THEN [s EXCEPT !.result.smtp_accepts = FALSE, !.result.status = "invalid",
                   !.pc = "done"]
    ELSE [s EXCEPT !.result.smtp_accepts = TRUE, !.pc = "check_catch_all"]

\* A variant of HostLoop that iterates mx_hosts, not mx_hosts[:3].
HostLoop_AllHosts(s) ==
    IF s.accepted
    THEN AfterHostLoop(s)
    ELSE IF s.host_i < Len(s.mx_hosts)
         THEN StartHandshake([s EXCEPT !.host_i = @ + 1], "verify_email",
                             s.host_i + 1, s.email)
         ELSE AfterHostLoop(s)

\* Lines 247-250: one more turn of "for mx_host in mx_hosts[:3]".
HostLoop(s) ==
    IF s.accepted
    THEN AfterHostLoop(s)
    ELSE IF s.host_i < Min(Len(s.mx_hosts), HostLimit)
         THEN StartHandshake([s EXCEPT !.host_i = @ + 1], "verify_email",
                             s.host_i + 1, s.email)
         ELSE AfterHostLoop(s)

\* Lines 259-267: check_catch_all returned.
FinishCatchAll(s, accepted) ==
    [s EXCEPT !.result.catch_all = accepted,
              !.result.status = FinalStatus(accepted),
              !.pc = "done"]

\* smtp_handshake returns (accepted, message) to its caller; its locals go.
ReturnHandshake(s, accepted, message) ==
    LET t == [s EXCEPT !.mx_host = <<>>, !.rcpt_to = <<>>, !.port_i = 0,
                       !.last_error = None, !.server = "None", !.site = "",
                       !.exc = NoExc, !.reply = NoReply, !.caller = "",
                       !.net.probe.outcome =
                           IF accepted THEN "Accepted" ELSE "NotAccepted",
                       !.net.returned = <<accepted, message>>]
    IN  IF s.caller = "check_catch_all"
        THEN FinishCatchAll(t, accepted)
        ELSE HostLoop([t EXCEPT !.accepted = accepted, !.error_msg = message])

\* A variant of AfterDns that sets result['mx'] from has_mx.
AfterDns_MxFromFlag(s, has_mx, mx_hosts) ==
    LET t == [s EXCEPT !.has_mx = has_mx, !.mx_hosts = mx_hosts]
    IN  IF mx_hosts = <<>>
        THEN [t EXCEPT !.result.status = "invalid", !.pc = "done"]
        ELSE HostLoop([t EXCEPT !.result.mx = has_mx, !.accepted = FALSE,
                                !.error_msg = <<"No MX hosts available">>])

\* Lines 233-245: check_dns_and_mx returned (has_mx, mx_hosts).
AfterDns(s, has_mx, mx_hosts) ==
    LET t == [s EXCEPT !.has_mx = has_mx, !.mx_hosts = mx_hosts]
    IN  IF mx_hosts = <<>>
        THEN [t EXCEPT !.result.status = "invalid", !.pc = "done"]
        ELSE HostLoop([t EXCEPT !.result.mx = TRUE, !.accepted = FALSE,
                                !.error_msg = <<"No MX hosts available">>])

\* A variant of SyntaxStep that records the validation and goes on.
SyntaxStep_NoEarlyReturn(s) ==
    LET parts == split(s.email, "@")
    IN  IF Len(parts) < 2
        THEN [s EXCEPT !.result.status = "invalid", !.pc = "done"]
        ELSE [s EXCEPT !.result.syntax = validate_email_syntax(s.email),
                       !.domain = parts[2], !.pc = "resolve_mx"]

\* Lines 217-228.
SyntaxStep(s) ==
    IF ~validate_email_syntax(s.email)
    THEN [s EXCEPT !.pc = "done"]
    ELSE LET parts == split(s.email, "@")
         IN  IF Len(parts) < 2
             THEN [s EXCEPT !.result.syntax = TRUE, !.result.status = "invalid",
                            !.pc = "done"]
             ELSE [s EXCEPT !.result.syntax = TRUE, !.domain = parts[2],
                            !.pc = "resolve_mx"]

---------------------------------------------------------------------------
(* check_dns_and_mx.                                                       *)

DnsAnswer(records) == [exc |-> "None", records |-> records]
DnsRaises(type) == [exc |-> type, records |-> <<>>]

MxOutcomes == {DnsAnswer(r) : r \in MxAnswers} \cup {DnsRaises(e) : e \in DnsErrors}
AOutcomes == {DnsAnswer(<<>>)} \cup {DnsRaises(e) : e \in DnsErrors}

\* Lines 56-61 and the except clauses of the outer try, lines 62, 70, 72.
MxLookupStep(s, o) ==
    LET t == [s EXCEPT !.net.dns = Append(@, <<"MX", o.exc>>)]
    IN  IF o.exc = "None"
        THEN AfterDns(t, TRUE, SortedHosts(o.records))
        ELSE IF o.exc \in {"NoAnswer", "NXDOMAIN", "NoNameservers"}
             THEN [t EXCEPT !.pc = "resolve_a"]
             ELSE AfterDns(t, FALSE, <<>>)

\* Lines 64-69: the lookup runs inside the handler of line 62, so only the
\* clause of line 68 can catch what it raises; anything else leaves
\* check_dns_and_mx, and verify_email (line 231) does not catch it either.
ALookupStep(s, o) ==
    LET t == [s EXCEPT !.net.dns = Append(@, <<"A", o.exc>>)]
    IN  IF o.exc = "None"
        THEN AfterDns(t, FALSE, <<s.domain>>)
        ELSE IF o.exc \in {"NXDOMAIN", "NoNameservers"}
             THEN AfterDns(t, FALSE, <<>>)
             ELSE [t EXCEPT !.pc = "raised",
                            !.raised = [type |-> o.exc, str |-> ""]]

---------------------------------------------------------------------------
(* smtp_handshake: the body of "for port in ports_to_try".                 *)

port(s) == ports_to_try[s.port_i]

\* last_error = reason
SetLastError(s, reason) ==
    [s EXCEPT !.last_error = reason, !.net.reasons = @ + 1]

Sent(s, command) == [s EXCEPT !.net.session = Append(@, command)]

\* Line 187: the port loop is over.
ReturnNotAccepted(s) ==
    ReturnHandshake(s, FALSE,
        IF s.last_error = None THEN <<"All connection attempts failed">>
        ELSE s.last_error)

\* "continue": the next port of ports_to_try, with server = None (line 97).
Continue(s) ==
    IF s.port_i < Len(ports_to_try)
    THEN [s EXCEPT !.pc = "connect", !.port_i = @ + 1, !.server = "None",
                   !.site = "", !.exc = NoExc, !.reply = NoReply]
    ELSE ReturnNotAccepted(s)

\* "break" (line 160).
Break(s) == ReturnNotAccepted(s)

\* The except clause of the outer try (lines 145-184) that catches e: the
\* first one, in source order, that names a class of e.
Handler(e) ==
    CASE IsInstance(e, {"socket.timeout", "TimeoutError"}) -> "timeout"
      [] IsInstance(e, {"socket.gaierror"}) -> "gaierror"
      [] IsInstance(e, {"ConnectionRefusedError", "OSError",
                        "ConnectionResetError"}) -> "oserror"
      [] IsInstance(e, {"SMTPServerDisconnected"}) -> "disconnected"
      [] OTHER -> "exception"

\* A variant of HandlerBody whose gaierror clause goes on to the next port.
HandlerBody_GaierrorContinues(s, e) ==
    LET h == Handler(e)
    IN  CASE h = "timeout" ->
                 Continue(SetLastError(s,
                     <<"Connection timeout on port ", PortStr(port(s))>>))
          [] h = "gaierror" ->
                 Continue(SetLastError(s,
                     <<"Could not resolve host">>))
          [] h = "oserror" ->
                 IF port(s) = 25 /\ MentionsRefused(e.str)
                 THEN Continue(SetLastError(s,
                     <<"Port 25 blocked (AWS EC2 blocks outbound port 25 by default)">>))
                 ELSE Continue(SetLastError(s,
                     <<"Connection error on port ", PortStr(port(s)), ": ", e.str>>))
          [] h = "disconnected" ->
                 Continue(SetLastError(s,
                     <<"Server disconnected on port ", PortStr(port(s))>>))
          [] OTHER ->
                 Continue(SetLastError(s,
                     <<"SMTP error on port ", PortStr(port(s)), ": ", e.str>>))

\* The handler's assignments after its best-effort quit, and its continue
\* or break.
HandlerBody(s, e) ==
    LET h == Handler(e)
    IN  CASE h = "timeout" ->
                 Continue(SetLastError(s,
                     <<"Connection timeout on port ", PortStr(port(s))>>))
          [] h = "gaierror" ->
                 Break(SetLastError(s,
                     <<"Could not resolve host">>))
          [] h = "oserror" ->
                 IF port(s) = 25 /\ MentionsRefused(e.str)
                 THEN Continue(SetLastError(s,
                     <<"Port 25 blocked (AWS EC2 blocks outbound port 25 by default)">>))
                 ELSE Continue(SetLastError(s,
                     <<"Connection error on port ", PortStr(port(s)), ": ", e.str>>))
          [] h = "disconnected" ->
                 Continue(SetLastError(s,
                     <<"Server disconnected on port ", PortStr(port(s))>>))
          [] OTHER ->
                 Continue(SetLastError(s,
                     <<"SMTP error on port ", PortStr(port(s)), ": ", e.str>>))

\* Exception e reaches the except clauses of the outer try.  All but the
\* clause of line 174 first call server.quit() under "if server", inside a
\* try whose bare except drops whatever that quit raises: the call is
\* recorded and its outcome changes nothing.
Raise(s, e) ==
    IF Handler(e) # "disconnected" /\ s.server # "None"
    THEN HandlerBody(Sent(s, "QUIT"), e)
    ELSE HandlerBody(s, e)

\* Lines 136-143: the except clauses of the try around server.rcpt.
RcptExcept(s, e) ==
    IF IsInstance(e, {"SMTPRecipientsRefused"})
    THEN [s EXCEPT !.pc = "quit", !.site = "refused", !.exc = e]
    ELSE [s EXCEPT !.pc = "quit", !.site = "rcpt_exc", !.exc = e]

\* Lines 97-102.
ConnectStep(s, o) ==
    LET t == [s EXCEPT !.server = "SMTP",
                       !.net.contacted = @ \cup {[caller |-> s.caller,
                                                   pos |-> s.net.probe.pos]},
                       !.net.connected = (o.exc = NoExc),
                       !.net.session = <<>>, !.net.mail_code = 0,
                       !.net.rcpt_code = 0,
                       !.net.reasons = 0,
                       !.net.conn = [caller |-> s.caller,
                                     pos |-> s.net.probe.pos,
                                     port_i |-> s.port_i],
                       !.net.connect_exc = o.exc.type]
    IN  IF o.exc = NoExc THEN [t EXCEPT !.pc = "ehlo"] ELSE Raise(t, o.exc)

\* Lines 105-107.
EhloStep(s, o) ==
    IF o.exc = NoExc
    THEN [Sent(s, "EHLO") EXCEPT !.pc = "mail"]
    ELSE [Sent(s, "EHLO") EXCEPT !.pc = "helo"]

\* Lines 108-110.
HeloStep(s, o) ==
    IF o.exc = NoExc
    THEN [Sent(s, "HELO") EXCEPT !.pc = "mail"]
    ELSE [Sent(s, "HELO") EXCEPT !.pc = "quit", !.site = "greeting"]

\* Lines 115-117: the reply of server.mail('') is not looked at.
MailStep(s, o) ==
    IF o.exc = NoExc
    THEN [Sent(s, "MAIL") EXCEPT !.pc = "rcpt", !.net.mail_code = o.reply.code]
    ELSE [Sent(s, "MAIL") EXCEPT !.pc = "quit", !.site = "mail", !.exc = o.exc]

\* A variant of RcptStep that goes on to DATA once the recipient is accepted.
RcptStep_ThenData(s, o) ==
    LET t == Sent(s, "RCPT")
    IN  IF o.exc # NoExc
        THEN RcptExcept(t, o.exc)
        ELSE IF o.reply.code \in AcceptCodes
             THEN [Sent(t, "DATA") EXCEPT !.pc = "quit", !.site = "accept",
                                          !.reply = o.reply,
                                          !.net.rcpt_code = o.reply.code]
             ELSE [t EXCEPT !.pc = "quit", !.site = "reject", !.reply = o.reply,
                            !.net.rcpt_code = o.reply.code]

\* A variant of RcptStep that takes any reply of the server for an
\* acceptance.
RcptStep_AcceptsAnyReply(s, o) ==
    LET t == Sent(s, "RCPT")
    IN  IF o.exc # NoExc
        THEN RcptExcept(t, o.exc)
        ELSE [t EXCEPT !.pc = "quit", !.site = "accept", !.reply = o.reply,
                       !.net.rcpt_code = o.reply.code]

\* Lines 123-127 and 130.
RcptStep(s, o) ==
    LET t == Sent(s, "RCPT")
    IN  IF o.exc # NoExc
        THEN RcptExcept(t, o.exc)
        ELSE IF o.reply.code \in AcceptCodes
             THEN [t EXCEPT !.pc = "quit", !.site = "accept", !.reply = o.reply,
                            !.net.rcpt_code = o.reply.code]
             ELSE [t EXCEPT !.pc = "quit", !.site = "reject", !.reply = o.reply,
                            !.net.rcpt_code = o.reply.code]

\* server.quit() at lines 111, 118, 128, 131, 137 and 141, and the
\* statements that follow each.
QuitStep(s, o) ==
    LET t == Sent(s, "QUIT")
        ok == o.exc = NoExc
    IN  CASE s.site = "greeting" ->
                 IF ok THEN Continue(t) ELSE Raise(t, o.exc)
          [] s.site = "mail" ->
                 IF ok
                 THEN Continue(SetLastError(t,
                     <<"MAIL FROM failed: ", s.exc.str>>))
                 ELSE Raise(t, o.exc)
          [] s.site = "accept" ->
                 IF ok
                 THEN ReturnHandshake(t, TRUE, <<"Accepted">>)
                 ELSE RcptExcept(t, o.exc)
          [] s.site = "reject" ->
                 IF ok
                 THEN Continue(SetLastError(t,
                     <<"Rejected: ", CodeStr(s.reply.code), " ", s.reply.message>>))
                 ELSE RcptExcept(t, o.exc)
          [] s.site = "refused" ->
                 IF ok
                 THEN Continue(SetLastError(t,
                     <<"Recipient refused: ", s.exc.str>>))
                 ELSE Raise(t, o.exc)
          [] s.site = "rcpt_exc" ->
                 IF ok
                 THEN Continue(SetLastError(t,
                     <<"RCPT TO error: ", s.exc.str>>))
                 ELSE Raise(t, o.exc)

\* A variant of CatchAllStep that probes the host that accepted the address.
CatchAllStep_AcceptingHost(s, random_string) ==
    IF s.mx_hosts = <<>>
    THEN FinishCatchAll(s, FALSE)
    ELSE StartHandshake(s, "check_catch_all", s.host_i,
                        generate_random_email(random_string, s.domain))

\* Lines 195-199: check_catch_all up to its call of smtp_handshake.
CatchAllStep(s, random_string) ==
    IF s.mx_hosts = <<>>
    THEN FinishCatchAll(s, FALSE)
    ELSE StartHandshake(s, "check_catch_all", 1,
                        generate_random_email(random_string, s.domain))

---------------------------------------------------------------------------
(* The state machine.                                                      *)

Calls == DOMAIN frame

Init ==
    /\ frame \in [{1} -> {InitialFrame(e) : e \in Emails}]
    /\ random_draws = 0

\* A variant of Step in which the result dict is one module-level object
\* that every call writes.
Step_ModuleLevelResult(c, s) ==
    /\ frame' = [d \in Calls |->
                     IF d = c THEN s ELSE [frame[d] EXCEPT !.result = s.result]]
    /\ UNCHANGED random_draws

\* A statement of call c: it reads and writes the locals of c alone.
Step(c, s) ==
    /\ frame' = [frame EXCEPT ![c] = s]
    /\ UNCHANGED random_draws

\* Line 80: random.choices advances the generator of the random module.
Draw(c, s) ==
    /\ frame' = [frame EXCEPT ![c] = s]
    /\ random_draws' = random_draws + 1

ValidateSyntax ==
    \E c \in Calls :
        /\ frame[c].pc = "verify_email"
        /\ Step(c, SyntaxStep(frame[c]))

MxLookup ==
    \E c \in Calls :
        /\ frame[c].pc = "resolve_mx"
        /\ \E o \in MxOutcomes : Step(c, MxLookupStep(frame[c], o))

ALookup ==
    \E c \in Calls :
        /\ frame[c].pc = "resolve_a"
        /\ \E o \in AOutcomes : Step(c, ALookupStep(frame[c], o))

Connect ==
    \E c \in Calls :
        /\ frame[c].pc = "connect"
        /\ \E o \in ConnectOutcomes : Step(c, ConnectStep(frame[c], o))

Ehlo ==
    \E c \in Calls :
        /\ frame[c].pc = "ehlo"
        /\ \E o \in GreetingOutcomes : Step(c, EhloStep(frame[c], o))

Helo ==
    \E c \in Calls :
        /\ frame[c].pc = "helo"
        /\ \E o \in GreetingOutcomes : Step(c, HeloStep(frame[c], o))

Mail ==
    \E c \in Calls :
        /\ frame[c].pc = "mail"
        /\ \E o \in MailOutcomes : Step(c, MailStep(frame[c], o))

Rcpt ==
    \E c \in Calls :
        /\ frame[c].pc = "rcpt"
        /\ \E o \in RcptOutcomes : Step(c, RcptStep(frame[c], o))

Quit ==
    \E c \in Calls :
        /\ frame[c].pc = "quit"
        /\ \E o \in QuitOutcomes : Step(c, QuitStep(frame[c], o))

CheckCatchAll ==
    \E c \in Calls :
        /\ frame[c].pc = "check_catch_all"
        /\ \E r \in RandomStrings : Draw(c, CatchAllStep(frame[c], r))

Next ==
    \/ ValidateSyntax
    \/ MxLookup
    \/ ALookup
    \/ Connect
    \/ Ehlo
    \/ Helo
    \/ Mail
    \/ Rcpt
    \/ Quit
    \/ CheckCatchAll

Spec == Init /\ [][Next]_vars

---------------------------------------------------------------------------
(* Properties of verify_email and check_dns_and_mx.                        *)

Returned(c) == frame[c].pc = "done"

\* The resolver's signals that the queried record does not exist.
NoRecord == {"NoAnswer", "NXDOMAIN"}

\* check_dns_and_mx is over: a query was made and none is pending.
ResolverLeft(c) ==
    /\ frame[c].net.dns # <<>>
    /\ frame[c].pc # "resolve_a"

\* C1: verify_email is total: whatever the resolver and the SMTP sessions
\* answer, no call ends with an exception raised to its caller.
C1_VerifyEmailTotal ==
    \A c \in Calls : frame[c].pc # "raised"

\* C2: check_dns_and_mx catches every resolver error: once its lookups are
\* over it has returned a pair, (True, hosts) after an MX answer,
\* (False, [domain]) after an address answer and (False, []) after every
\* failure, and no exception has left it.
C2_ResolverErrorsCaught ==
    \A c \in Calls :
        ResolverLeft(c) =>
            LET f == frame[c]
                last == Last(f.net.dns)
            IN  /\ f.raised = NoExc
                /\ last = <<"MX", "None">> => f.has_mx /\ f.mx_hosts # <<>>
                /\ last = <<"A", "None">> =>
                       ~f.has_mx /\ f.mx_hosts = <<f.domain>>
                /\ last[2] # "None" => ~f.has_mx /\ f.mx_hosts = <<>>

\* The status the four booleans of a result determine.
StatusOf(r) ==
    IF r.syntax /\ r.mx /\ r.smtp_accepts /\ r.catch_all THEN "risky"
    ELSE IF r.syntax /\ r.mx /\ r.smtp_accepts /\ ~r.catch_all THEN "valid"
    ELSE "invalid"

\* C3: in every result verify_email returns, status is risky exactly when
\* syntax, mx, smtp_accepts and catch_all are all true, valid exactly when
\* the first three are true and catch_all is false, and invalid otherwise.
C3_StatusIsFunctionOfBooleans ==
    \A c \in Calls :
        Returned(c) => frame[c].result.status = StatusOf(frame[c].result)

C3_Witness ==
    \E c \in Calls :
        /\ Returned(c)
        /\ frame[c].result.status = "risky"
        /\ frame[c].net.probe.outcome = "Accepted"

\* C4: an input that fails syntax validation never causes a network
\* operation (no resolver query, no connection, no probe), and its call
\* returns the initial result: status invalid and the four booleans false.
C4_InvalidSyntaxNoNetwork ==
    \A c \in Calls :
        ~validate_email_syntax(frame[c].email) =>
            /\ frame[c].net = NoNet
            /\ frame[c].pc \in {"verify_email", "done"}
            /\ Returned(c) => frame[c].result = InitialResult(frame[c].email)

C4_Witness ==
    \E c \in Calls :
        /\ Returned(c)
        /\ frame[c].email = <<"a", "@", "b", ".", "c">>
        /\ ~frame[c].result.syntax

\* C5: no host beyond the third of the resolved list is ever contacted, and
\* when the probes of the first three hosts all end not accepted the call
\* returns status invalid with smtp_accepts false, however long the list.
C5_AtMostThreeHosts ==
    \A c \in Calls :
        /\ \A e \in frame[c].net.contacted : e.pos <= HostLimit
        /\ ( /\ Returned(c)
             /\ frame[c].net.probe.caller = "verify_email"
             /\ frame[c].net.probe.pos = HostLimit
             /\ frame[c].net.probe.outcome = "NotAccepted" )
           => /\ frame[c].result.status = "invalid"
              /\ ~frame[c].result.smtp_accepts
              /\ {e.pos : e \in frame[c].net.contacted} = 1..HostLimit

C5_Witness ==
    \E c \in Calls :
        /\ Returned(c)
        /\ Len(frame[c].mx_hosts) > HostLimit
        /\ frame[c].net.probe.pos = HostLimit
        /\ frame[c].net.probe.outcome = "NotAccepted"
        /\ frame[c].result.status = "invalid"

---------------------------------------------------------------------------
(* Properties of smtp_handshake and check_catch_all.                       *)

\* The recipient step of the open session was answered with an accepting
\* code after a completed greeting and an accepted empty sender, and the
\* code is about to call server.quit() (line 128).
AcceptedRcpt(c) ==
    /\ frame[c].pc = "quit"
    /\ frame[c].site = "accept"
    /\ frame[c].reply.code \in AcceptCodes
    /\ frame[c].net.connected
    /\ frame[c].net.mail_code = 250

\* The running smtp_handshake returns Accepted in this step.
ReturnsAccepted(c) ==
    /\ frame[c].net.probe.outcome = "running"
    /\ frame'[c].net.probe.outcome = "Accepted"

\* C6: when port 25 was refused and the session on port 587 got through
\* greeting, empty sender and a recipient step with an accepting code, the
\* next step of the probe is to return Accepted.
C6_PortFallbackAccepts ==
    [][\A c \in Calls :
          ( /\ AcceptedRcpt(c)
            /\ port(frame[c]) = SMTP_ESMTP_PORT
            /\ frame[c].last_error =
                   <<"Port 25 blocked (AWS EC2 blocks outbound port 25 by default)">>
            /\ frame'[c] # frame[c] )
          => ReturnsAccepted(c)]_vars

\* C7: once the recipient step returned 250, 251 or 252 the probe returns
\* Accepted whatever the QUIT that follows does.
C7_QuitNeverOverrides ==
    [][\A c \in Calls :
          ( /\ frame[c].pc = "quit"
            /\ frame[c].site = "accept"
            /\ frame'[c] # frame[c] )
          => ReturnsAccepted(c)]_vars

Rank(command) ==
    CASE command = "EHLO" -> 1
      [] command = "HELO" -> 2
      [] command = "MAIL" -> 3
      [] command = "RCPT" -> 4
      [] command = "QUIT" -> 5
      [] OTHER -> 0

Count(cmds, command) == Cardinality({k \in 1..Len(cmds) : cmds[k] = command})

\* C8: the commands called on an SMTP object are EHLO, HELO only right
\* after EHLO, one MAIL only after the greeting, at most one RCPT only
\* after MAIL, and QUIT, in that order: never DATA, never a second RCPT.
C8_OnlyHandshakeCommands ==
    \A c \in Calls :
        LET cmds == frame[c].net.session
        IN  /\ \A k \in 1..Len(cmds) : Rank(cmds[k]) > 0
            /\ \A j, k \in 1..Len(cmds) : j < k => Rank(cmds[j]) <= Rank(cmds[k])
            /\ \A x \in {"EHLO", "HELO", "MAIL", "RCPT"} : Count(cmds, x) <= 1
            /\ Count(cmds, "HELO") = 1 => Count(cmds, "EHLO") = 1
            /\ Count(cmds, "MAIL") = 1 => Count(cmds, "EHLO") = 1
            /\ Count(cmds, "RCPT") = 1 => Count(cmds, "MAIL") = 1
            /\ (frame[c].net.connected /\ cmds # <<>>) => cmds[1] = "EHLO"
            /\ ~frame[c].net.connected => \A k \in 1..Len(cmds) : cmds[k] = "QUIT"

C8_Witness ==
    \E c \in Calls :
        /\ frame[c].net.connected
        /\ frame[c].net.session = <<"EHLO", "HELO", "MAIL", "RCPT", "QUIT">>
        /\ frame[c].net.probe.outcome = "Accepted"

\* C9: a call whose real address was accepted has made exactly one
\* catch-all probe, the newest probe, against mx_hosts[0] whichever host
\* accepted, for a generated mailbox at the domain of the address, and its
\* catch_all is true exactly when that probe was Accepted; a call makes no
\* catch-all probe before a host accepted the real address.
C9_OneCatchAllProbeOnFirstHost ==
    \A c \in Calls :
        LET f == frame[c]
            probe == f.net.probe
        IN  /\ f.net.catch_all_probes <= 1
            /\ f.net.catch_all_probes = 1 =>
                   /\ f.accepted /\ f.result.smtp_accepts
                   /\ probe.caller = "check_catch_all"
                   /\ probe.pos = 1
                   /\ probe.mx_host = f.mx_hosts[1]
                   /\ split(probe.rcpt_to, "@")[1] \in RandomStrings
                   /\ split(probe.rcpt_to, "@")[2] = split(f.email, "@")[2]
            /\ (Returned(c) /\ f.result.smtp_accepts) =>
                   /\ f.net.catch_all_probes = 1
                   /\ f.result.catch_all <=> probe.outcome = "Accepted"

C9_Witness ==
    \E c \in Calls :
        /\ Returned(c)
        /\ frame[c].host_i = 2
        /\ frame[c].mx_hosts[1] # frame[c].mx_hosts[2]
        /\ frame[c].result.catch_all
        /\ frame[c].net.probe.mx_host = frame[c].mx_hosts[1]

\* C10: a syntactically valid address whose domain has neither an MX
\* record nor an address record is returned as invalid with syntax true
\* and mx, smtp_accepts, catch_all false, and no host is contacted.
C10_NoRecordsIsInvalid ==
    \A c \in Calls :
        ( /\ validate_email_syntax(frame[c].email)
          /\ Len(frame[c].net.dns) = 2
          /\ frame[c].net.dns[1][2] \in NoRecord
          /\ frame[c].net.dns[2][2] \in NoRecord )
        => /\ Returned(c)
           /\ frame[c].result =
                  [InitialResult(frame[c].email) EXCEPT !.syntax = TRUE]
           /\ frame[c].net.contacted = {}
           /\ frame[c].net.probe = NoProbe

---------------------------------------------------------------------------
(* check_dns_and_mx on a successful MX answer, as a function of the        *)
(* answer: lines 56-61.                                                    *)

\* The largest number of records of an answer.
MaxAnswer == 3

\* Records with three exchanges and three preferences, so that an answer
\* can hold ties, duplicates and preferences out of order.
WideMxRecord ==
    [exchange : {<<"m", "x", "1">>, <<"m", "x", "2">>, <<"m", "x", "3">>},
     preference : {10, 20, 30}]

WideMxAnswers == UNION { [1..n -> WideMxRecord] : n \in 1..MaxAnswer }

\* The resolver handed mx_records to line 58.
InitMx ==
    /\ frame \in [{1} -> {[pc |-> "check_dns_and_mx", mx_records |-> r,
                           has_mx |-> FALSE, mx_hosts |-> <<>>] :
                          r \in WideMxAnswers}]
    /\ random_draws = 0

\* Lines 59-61: return True, [host for host, _ in mx_hosts].
ReturnSortedHosts ==
    \E c \in Calls :
        /\ frame[c].pc = "check_dns_and_mx"
        /\ Step(c, [frame[c] EXCEPT !.pc = "return", !.has_mx = TRUE,
                                    !.mx_hosts =
                                        SortedHosts(frame[c].mx_records)])

NextMx == ReturnSortedHosts

SpecMx == InitMx /\ [][NextMx]_vars

Orderings(n) ==
    {p \in [1..n -> 1..n] : \A i, j \in 1..n : p[i] = p[j] => i = j}

\* C11: on a successful MX lookup check_dns_and_mx returns hasMx = true
\* and the exchanges of all the records, duplicates kept, in ascending
\* preference, records of equal preference in the order of the answer
\* (preferences 20, 10, 30 come back as 10, 20, 30).
C11_HostsByPreferenceStable ==
    \A c \in Calls :
        frame[c].pc = "return" =>
            LET mx_records == frame[c].mx_records
                mx_hosts == frame[c].mx_hosts
                n == Len(mx_records)
            IN  /\ frame[c].has_mx
                /\ Len(mx_hosts) = n
                /\ \E p \in Orderings(n) :
                       /\ \A k \in 1..n :
                              mx_hosts[k] = mx_records[p[k]].exchange
                       /\ \A k, l \in 1..n :
                              k < l =>
                                  \/ mx_records[p[k]].preference
                                         < mx_records[p[l]].preference
                                  \/ /\ mx_records[p[k]].preference
                                            = mx_records[p[l]].preference
                                     /\ p[k] < p[l]
                /\ (n = 3 /\ mx_records[1].preference = 20
                          /\ mx_records[2].preference = 10
                          /\ mx_records[3].preference = 30)
                       => mx_hosts = << mx_records[2].exchange,
                                        mx_records[1].exchange,
                                        mx_records[3].exchange >>

\* Two records tie on preference 20 behind a lower one that came last, and
\* the answer holds the same exchange twice.
C11_Witness ==
    \E c \in Calls :
        /\ frame[c].pc = "return"
        /\ frame[c].mx_records =
               << [exchange |-> <<"m", "x", "3">>, preference |-> 20],
                  [exchange |-> <<"m", "x", "1">>, preference |-> 20],
                  [exchange |-> <<"m", "x", "3">>, preference |-> 10] >>
        /\ frame[c].mx_hosts =
               << <<"m", "x", "3">>, <<"m", "x", "3">>, <<"m", "x", "1">> >>

---------------------------------------------------------------------------
(* The order of the stages of verify_email.                                *)

\* The stage a call is in: 1 the syntax check, 2 domain resolution, 3 the
\* probe of the real address, 4 the catch-all probe, 5 over.
Stage(f) ==
    CASE f.pc = "verify_email" -> 1
      [] f.pc \in {"resolve_mx", "resolve_a"} -> 2
      [] f.pc = "check_catch_all" -> 4
      [] f.pc \in {"done", "raised"} -> 5
      [] OTHER -> IF f.caller = "check_catch_all" THEN 4 ELSE 3

\* The part of C12 about the order alone: no step of a call takes it to an
\* earlier stage.
C12_StagesOnlyForward ==
    [][\A c \in Calls : Stage(frame'[c]) >= Stage(frame[c])]_vars

\* C12: the stages of a call only move forward; a lookup is made only
\* after the syntax check passed, a probe only after resolution returned
\* a non-empty host list, the catch-all probe only after a probe of the
\* real address returned Accepted; and a call that ends before its
\* catch-all stage, a stage having failed, has returned status invalid.
C12_FailingStageReturnsInvalid ==
    \A c \in Calls :
        LET f == frame[c]
        IN  /\ f.net.dns # <<>> => f.result.syntax
            /\ Stage(f) \in 2..4 => f.result.syntax
            /\ f.net.probe # NoProbe =>
                   /\ f.mx_hosts # <<>>
                   /\ f.result.mx
                   /\ f.net.dns # <<>>
            /\ f.net.catch_all_probes > 0 =>
                   /\ f.accepted
                   /\ f.result.smtp_accepts
                   /\ [caller |-> "verify_email", pos |-> f.host_i]
                          \in f.net.contacted
            /\ (Stage(f) = 5 /\ f.net.catch_all_probes = 0) =>
                   /\ Returned(c)
                   /\ f.result.status = "invalid"

---------------------------------------------------------------------------
(* Two verify_email calls in progress at once (the threads of app.py),     *)
(* each against its own resolver and servers.                              *)

\* What the resolver and the servers of one call answer, whenever asked:
\* the MX and the A lookup, the connection to port 25 (the other ports
\* accept), the recipient step for the real address and for the random
\* one.  Greetings, MAIL FROM and QUIT are answered with their success
\* codes.
Resolvers ==
    { [mx |-> DnsAnswer(<< [exchange |-> <<"m", "x", "2">>, preference |-> 20],
                           [exchange |-> <<"m", "x", "1">>, preference |-> 10] >>),
       a |-> DnsAnswer(<<>>)],
      [mx |-> DnsRaises("NoAnswer"), a |-> DnsAnswer(<<>>)] }

Servers ==
    [connect25 : {Returns(Reply(220, "Ready")),
                  Raises([type |-> "ConnectionRefusedError",
                          str |-> "[Errno 111] Connection refused"])},
     rcpt_real : {Returns(Reply(250, "OK")), Returns(Reply(550, "User unknown"))},
     rcpt_random : {Returns(Reply(250, "OK")),
                    Returns(Reply(550, "User unknown"))}]

Worlds ==
    {[email |-> <<"a", "@", "b">>,
      resolver |-> [mx |-> DnsRaises("NXDOMAIN"), a |-> DnsRaises("NXDOMAIN")],
      server |-> CHOOSE v \in Servers : TRUE],
     [email |-> <<"a", "+", "1", "@", "m", "-", "x", ".", "c", "o">>,
      resolver |-> [mx |-> DnsRaises("NoAnswer"), a |-> DnsRaises("Timeout")],
      server |-> CHOOSE v \in Servers : TRUE]}
        \cup [email : {<<"a", "+", "1", "@", "m", "-", "x", ".", "c", "o">>},
              resolver : Resolvers, server : Servers]

\* The answer of the world of frame s to the network step s is at.
Answer(s) ==
    CASE s.pc = "resolve_mx" -> s.world.resolver.mx
      [] s.pc = "resolve_a" -> s.world.resolver.a
      [] s.pc = "connect" ->
             IF port(s) = SMTP_PORT THEN s.world.server.connect25
             ELSE Returns(Reply(220, "Ready"))
      [] s.pc \in {"ehlo", "helo", "mail"} -> Returns(Reply(250, "OK"))
      [] s.pc = "rcpt" ->
             IF s.caller = "verify_email" THEN s.world.server.rcpt_real
             ELSE s.world.server.rcpt_random
      [] s.pc = "quit" -> Returns(Reply(221, "Bye"))

\* The next statement of the call of frame s, drawing random_string if it
\* is the one of check_catch_all.
Statement(s, random_string) ==
    CASE s.pc = "verify_email" -> SyntaxStep(s)
      [] s.pc = "resolve_mx" -> MxLookupStep(s, Answer(s))
      [] s.pc = "resolve_a" -> ALookupStep(s, Answer(s))
      [] s.pc = "connect" -> ConnectStep(s, Answer(s))
      [] s.pc = "ehlo" -> EhloStep(s, Answer(s))
      [] s.pc = "helo" -> HeloStep(s, Answer(s))
      [] s.pc = "mail" -> MailStep(s, Answer(s))
      [] s.pc = "rcpt" -> RcptStep(s, Answer(s))
      [] s.pc = "quit" -> QuitStep(s, Answer(s))
      [] s.pc = "check_catch_all" -> CatchAllStep(s, random_string)

FrameIn(world) == InitialFrame(world.email) @@ [world |-> world]

Over(s) == s.pc \in {"done", "raised"}

InitConcurrent ==
    /\ frame \in [{1, 2} -> {FrameIn(w) : w \in Worlds}]
    /\ random_draws = 0

\* Some call runs its next statement.
RunStatement ==
    \E c \in Calls :
        /\ ~Over(frame[c])
        /\ frame[c].pc # "check_catch_all"
        /\ Step(c, Statement(frame[c], <<>>))

\* Some call runs check_catch_all up to its smtp_handshake.
RunCheckCatchAll ==
    \E c \in Calls :
        /\ frame[c].pc = "check_catch_all"
        /\ \E r \in RandomStrings : Draw(c, Statement(frame[c], r))

NextConcurrent == RunStatement \/ RunCheckCatchAll

SpecConcurrent == InitConcurrent /\ [][NextConcurrent]_vars

\* The call of frame s run to its end with no other call in progress.
RECURSIVE Alone(_)
Alone(s) ==
    IF Over(s) THEN s
    ELSE Alone(Statement(s, CHOOSE r \in RandomStrings : TRUE))

---------------------------------------------------------------------------
(* Properties of smtp_handshake.                                           *)

\* C14: if the server answers MAIL FROM with a code that is not a success
\* code (2xx), smtp_handshake abandons that port: no RCPT TO is issued on
\* that session.
C14_RejectedSenderAbandonsPort ==
    \A c \in Calls :
        (frame[c].net.mail_code # 0 /\ frame[c].net.mail_code \notin 200..299)
            => Count(frame[c].net.session, "RCPT") = 0

\* The newest port attempt of call c is over and was not accepted: the
\* port loop is about to try the next port, or smtp_handshake has just
\* returned not-accepted and no connection has been attempted since.
AttemptFailed(c) ==
    \/ frame[c].pc = "connect" /\ frame[c].port_i > 1
    \/ /\ frame[c].pc = "done" \/ (frame[c].pc = "connect" /\ frame[c].port_i = 1)
       /\ frame[c].net.returned # <<>>
       /\ ~frame[c].net.returned[1]

\* C15: every port attempt that does not end in acceptance records
\* exactly one failure reason, so that the reason smtp_handshake returns
\* is the one of its last port attempt and never the default.
C15_EveryFailedAttemptRecordsItsReason ==
    \A c \in Calls :
        /\ AttemptFailed(c) => frame[c].net.reasons = 1
        /\ (frame[c].net.returned # <<>> /\ ~frame[c].net.returned[1]) =>
               frame[c].net.returned[2] # <<"All connection attempts failed">>

\* Call c takes a step at program point pc.
StepAt(c, pc) == frame[c].pc = pc /\ frame'[c] # frame[c]

\* In the step being taken the running smtp_handshake of call c returns
\* (accepted, message).
HandshakeReturns(c, accepted, message) ==
    /\ frame[c].net.probe.outcome = "running"
    /\ frame'[c].net.probe # frame[c].net.probe
    /\ frame'[c].net.returned = <<accepted, message>>

\* In the step being taken the port loop of call c goes on to the next
\* port of 25, 587, 465, in the same smtp_handshake.
NextPort(c) ==
    /\ frame'[c].pc = "connect"
    /\ frame'[c].net.probe = frame[c].net.probe
    /\ frame'[c].port_i = frame[c].port_i + 1
    /\ \/ port(frame[c]) = 25 /\ port(frame'[c]) = 587
       \/ port(frame[c]) = 587 /\ port(frame'[c]) = 465

\* C16: a host-resolution failure (socket.gaierror) while connecting, on
\* whatever port, ends the port loop at once and smtp_handshake returns
\* 'Could not resolve host'; a connect timeout or any other connection
\* error moves on to the next port, in the order 25, 587, 465, and only
\* after port 465 does smtp_handshake return not-accepted.
C16_ResolveFailureEndsPortLoop ==
    [][\A c \in Calls :
          StepAt(c, "connect") =>
              LET e == frame'[c].net.connect_exc
              IN  /\ frame'[c].net.conn.port_i = frame[c].port_i
                  /\ e = "None" => frame'[c].pc = "ehlo"
                  /\ e = "socket.gaierror" =>
                         HandshakeReturns(c, FALSE, <<"Could not resolve host">>)
                  /\ e \notin {"None", "socket.gaierror"} =>
                         IF port(frame[c]) # 465
                         THEN NextPort(c)
                         ELSE /\ HandshakeReturns(c, FALSE,
                                                  frame'[c].net.returned[2])
                              /\ frame'[c].net.returned[2]
                                     # <<"Could not resolve host">>]_vars

\* Port 25 timed out or refused, the connection to port 587 failed to
\* resolve the host, and the probe ended there with that reason.
C16_Witness ==
    \E c \in Calls :
        /\ Returned(c)
        /\ frame[c].net.connect_exc = "socket.gaierror"
        /\ frame[c].net.conn = [caller |-> "verify_email", pos |-> 1, port_i |-> 2]
        /\ frame[c].net.returned = <<FALSE, <<"Could not resolve host">> >>
        /\ frame[c].error_msg = <<"Could not resolve host">>

\* C17: probing the real address stops at the first acceptance: once a
\* recipient step for the real address has been answered 250, 251 or 252,
\* no further connection is opened for the real address: at every
\* server.connect made for the real address, the connection before it, if
\* it was made for the real address too, did not have its recipient
\* accepted.
C17_NoConnectionAfterAcceptedRecipient ==
    [][\A c \in Calls :
          (StepAt(c, "connect") /\ frame[c].caller = "verify_email") =>
              ~ /\ frame[c].net.conn.caller = "verify_email"
                /\ frame[c].net.rcpt_code \in {250, 251, 252}]_vars

\* C18: smtp_handshake returns Accepted only when, on the port it is at,
\* the recipient step was answered 250, 251 or 252; any other reply code,
\* and any failure before or at the recipient step, never makes it return
\* Accepted; and a rejection on a port other than the last is followed by
\* the attempt on the next port, it does not end the probe.
C18_AcceptedOnlyOnAcceptingCode ==
    [][\A c \in Calls :
          /\ ReturnsAccepted(c) =>
                 /\ frame[c].pc = "quit"
                 /\ frame[c].net.connected
                 /\ Count(frame[c].net.session, "RCPT") = 1
                 /\ frame[c].net.rcpt_code \in {250, 251, 252}
                 /\ frame[c].net.conn.port_i = frame[c].port_i
                 /\ frame'[c].net.returned = <<TRUE, <<"Accepted">> >>
          /\ (StepAt(c, "quit") /\ frame[c].site = "reject") =>
                 /\ frame[c].net.rcpt_code \notin {0, 250, 251, 252}
                 /\ ~ReturnsAccepted(c)
                 /\ port(frame[c]) # 465 =>
                        \/ NextPort(c)
                        \/ /\ frame'[c].pc = "quit"
                           /\ frame'[c].site = "rcpt_exc"
          /\ (StepAt(c, "quit") /\ frame[c].site = "rcpt_exc"
                  /\ port(frame[c]) # 465) => NextPort(c)]_vars

\* Port 25 did not accept the real address, port 587 answered its
\* recipient step 251 and the probe returned Accepted.
C18_Witness ==
    \E c \in Calls :
        /\ frame[c].pc = "check_catch_all"
        /\ frame[c].net.probe.outcome = "Accepted"
        /\ frame[c].net.conn = [caller |-> "verify_email", pos |-> 1, port_i |-> 2]
        /\ frame[c].net.rcpt_code = 251
        /\ frame[c].accepted

\* The place of a connection attempt in the order of a probe sequence:
\* hosts in list order, and for each host the ports in order.
AttemptRank(conn) == Len(ports_to_try) * (conn.pos - 1) + conn.port_i

\* A measure of how far a call has got: the stage, then the port attempt,
\* then the statement of the port attempt.
Progress(f) ==
    LET in_attempt ==
            CASE f.pc = "connect" -> 0
              [] f.pc = "ehlo" -> 1
              [] f.pc = "helo" -> 2
              [] f.pc = "mail" -> 3
              [] f.pc = "rcpt" -> 4
              [] f.pc = "quit" -> 5 + Count(f.net.session, "QUIT")
              [] OTHER -> 0
    IN  CASE Stage(f) \in {3, 4} /\ f.pc # "check_catch_all" ->
                 1000 * Stage(f)
                     + 10 * AttemptRank([pos |-> f.net.probe.pos,
                                         port_i |-> f.port_i])
                     + in_attempt
          [] f.pc = "resolve_a" -> 1000 * Stage(f) + 1
          [] OTHER -> 1000 * Stage(f)

\* The part of C19 that holds: every step of a call increases its
\* bounded progress measure, so the call ends once each network step has
\* returned or failed; the connections for the real address go through at
\* most 3 list positions x 3 ports in order, those of the catch-all probe
\* through the 3 ports of the first host, none before the real address
\* was accepted and none for the real address after; and a connection is
\* opened only after quit was called on the session before it.
C19_BoundedSequentialAttempts ==
    [][\A c \in Calls :
          /\ frame'[c] # frame[c] =>
                 /\ Progress(frame'[c]) > Progress(frame[c])
                 /\ Progress(frame'[c]) <= 5000
          /\ StepAt(c, "connect") =>
                 LET old == frame[c].net.conn
                     new == frame'[c].net.conn
                 IN  /\ new.caller = frame[c].caller
                     /\ new.pos \in 1..HostLimit
                     /\ new.port_i \in 1..Len(ports_to_try)
                     /\ AttemptRank(new) \in 1..9
                     /\ new.caller = "check_catch_all" =>
                            new.pos = 1 /\ AttemptRank(new) \in 1..3
                     /\ old.caller = new.caller =>
                            AttemptRank(old) < AttemptRank(new)
                     /\ old.caller = "check_catch_all" =>
                            new.caller = "check_catch_all"
                     /\ new.caller = "verify_email" => ~frame[c].accepted
                     /\ new.caller = "check_catch_all" => frame[c].accepted
                     /\ frame[c].net.connected =>
                            Count(frame[c].net.session, "QUIT") >= 1]_vars

\* C19: a call makes a bounded number of sequential connection attempts
\* and never repeats one on the same host and port for the same address:
\* the hosts it has connected to for one address are pairwise different
\* (every probe of a host starts with a connection to its port 25).
C19_NoRepeatedAttempt ==
    \A c \in Calls :
        \A x, y \in frame[c].net.contacted :
            ( /\ x.caller = y.caller
              /\ frame[c].mx_hosts[x.pos] = frame[c].mx_hosts[y.pos] )
                => x = y

---------------------------------------------------------------------------
(* The mx field of the result.                                             *)

\* The MX lookup found no record and the address lookup that followed
\* returned an answer.
AddressRecordOnly(c) ==
    /\ Len(frame[c].net.dns) = 2
    /\ frame[c].net.dns[1][2] \in {"NoAnswer", "NXDOMAIN", "NoNameservers"}
    /\ frame[c].net.dns[2] = <<"A", "None">>

\* C20: result.mx tells whether the resolved host list is non-empty, not
\* whether the domain has MX records: when there is no MX record and the
\* address record resolves, check_dns_and_mx returns (False, [domain]),
\* verify_email sets mx = true and probes the domain itself as its only
\* host.
C20_MxFieldIsNonEmptyHostList ==
    \A c \in Calls :
        LET f == frame[c]
        IN  /\ (ResolverLeft(c) /\ f.pc # "raised") =>
                   (f.result.mx <=> f.mx_hosts # <<>>)
            /\ ~ResolverLeft(c) => ~f.result.mx
            /\ AddressRecordOnly(c) =>
                   /\ ~f.has_mx
                   /\ f.mx_hosts = <<f.domain>>
                   /\ f.result.mx
                   /\ f.net.probe # NoProbe
                   /\ f.net.probe.pos = 1
                   /\ f.net.probe.mx_host = f.domain
                   /\ \A x \in f.net.contacted : x.pos = 1
                   /\ f.pc \in {"connect", "ehlo", "helo", "mail", "rcpt",
                                "quit"} => f.mx_host = f.domain

\* A domain without MX record whose own host accepted the address and
\* rejected the random one: mx = true and status valid.
C20_Witness ==
    \E c \in Calls :
        /\ Returned(c)
        /\ AddressRecordOnly(c)
        /\ ~frame[c].has_mx
        /\ frame[c].result.mx
        /\ frame[c].result.status = "valid"
        /\ frame[c].net.probe.mx_host = frame[c].domain

=============================================================================
